---- MODULE Spec2Model ----
(***************************************************************************)
(* cndr_stats.dataimport: recoding of semi-quantitative regional scores,   *)
(* merging of the two Braak staging scales, and derivation of diagnostic   *)
(* flags, ADNC severity and LATE stage from a CNDR InQuery table.          *)
(*                                                                         *)
(* A table (pandas DataFrame) is a function from the names of the columns  *)
(* it has to the sequence of that column's cells, one per record.  A cell  *)
(* is a record [k, n, s]:                                                  *)
(*   k = "num"  a number; n is its value in HALF units (n = 3 is 1.5)      *)
(*   k = "str"  a text value s                                             *)
(*   k = "nan"  missing (NaN)                                              *)
(*   k = "bool" a raw boolean, n = 1 for True and 0 for False              *)
(* Every number the code reads or writes is a multiple of 0.5 on the       *)
(* inputs drawn here, so the half-unit integers are exact.                 *)
(***************************************************************************)
EXTENDS Integers, Sequences, FiniteSets, TLC

VARIABLES df, ret, call

vars == <<df, ret, call>>

(* df   : the caller's table object, as the calls leave it (in-place writes) *)
(* ret  : what the last call returned or raised                              *)
(* call : the name of the last function called ("load" before any call)      *)

----------------------------------------------------------------------------
(* Cells *)

Num(h) == [k |-> "num", n |-> h, s |-> ""]
Whole(w) == Num(2 * w)
Str(t) == [k |-> "str", n |-> 0, s |-> t]
NaN == [k |-> "nan", n |-> 0, s |-> ""]
Bool(b) == [k |-> "bool", n |-> (IF b THEN 1 ELSE 0), s |-> ""]

IsNull(c) == c.k = "nan"
IsNum(c) == c.k = "num"

Range(q) == {q[i] : i \in DOMAIN q}

(* Tables *)

EmptyTable == [c \in {} |-> <<>>]

NumRows(t) == IF DOMAIN t = {} THEN 0 ELSE Len(t[CHOOSE c \in DOMAIN t : TRUE])

RowIds(t) == 1 .. NumRows(t)

(* df[c] = column : adds the column or overwrites it *)
SetCol(t, c, column) == [x \in (DOMAIN t) \cup {c} |-> IF x = c THEN column ELSE t[x]]

(* A table from a set of <<name, present, column>> choices *)
MkTable(cs) ==
    [c \in {p[1] : p \in {q \in cs : q[2]}} |-> (CHOOSE p \in cs : p[1] = c /\ p[2])[3]]

(* Return values *)

RetTable(t) == [kind |-> "table", table |-> t, cols |-> {}]
RetNone == [kind |-> "None", table |-> EmptyTable, cols |-> {}]
RetKeyError(missing) == [kind |-> "KeyError", table |-> EmptyTable, cols |-> missing]

----------------------------------------------------------------------------
(* semiq_scores_to_numeric *)

measures == <<"Tau", "ThioPlaques", "AntibodyPlaques", "aSyn", "Ubiquitin",
              "Gliosis", "NeuronLoss", "TDP43", "Other", "Update">>

regions == <<"Amyg", "DG", "CS", "EC", "MF", "Ang", "SMT", "Cing", "OC",
             "Neocortical", "CP", "GP", "TS", "Subcortical", "MB", "SN",
             "Pons", "LC", "Med", "CB", "SC", "Brainstem", "MC", "OFC">>

cols_semiq == {x \o y : x \in Range(regions), y \in Range(measures)}

(* The conversion rules: token -> cell *)
repl_semiq ==
    [tok \in {"Rare", "2+", "3+", "1+", "0", "Presumed 0",
              "Not Avail", "Not Done", "Not Available"} |->
        CASE tok = "Rare" -> Num(1)
          [] tok = "2+" -> Whole(2)
          [] tok = "3+" -> Whole(3)
          [] tok = "1+" -> Whole(1)
          [] tok = "0" -> Whole(0)
          [] tok = "Presumed 0" -> Whole(0)
          [] OTHER -> NaN]

(* Series.replace(dict) on one cell: exact match of a text key *)
ReplaceCell(c, repl) ==
    IF c.k = "str" /\ c.s \in DOMAIN repl THEN repl[c.s] ELSE c

(* The cross product's columns that the table has *)
AllColumnsRecoded(t) == DOMAIN t

RecodedColumns(t) == (DOMAIN t) \cap cols_semiq

(* df.replace({column: repl_semiq, ...}): a new table; columns of the  *)
(* dictionary that the table lacks are skipped                           *)
semiq_scores_to_numeric(t) ==
    [c \in DOMAIN t |->
        IF c \in RecodedColumns(t)
        THEN [i \in DOMAIN t[c] |-> ReplaceCell(t[c][i], repl_semiq)]
        ELSE t[c]]

----------------------------------------------------------------------------
(* merge_braak_stages *)

RetValueError == [kind |-> "ValueError", table |-> EmptyTable, cols |-> {}]

(* The text values float() reads, with their value in whole units *)
FloatText == [t \in {"0", "1", "2", "3", "4", "5", "6"} |->
                CASE t = "0" -> 0 [] t = "1" -> 1 [] t = "2" -> 2 [] t = "3" -> 3
                  [] t = "4" -> 4 [] t = "5" -> 5 [] OTHER -> 6]

(* .replace({'Unknown': np.nan}) on one cell *)
ReplaceUnknown(c) == ReplaceCell(c, [t \in {"Unknown"} |-> NaN])

(* .astype('float32') succeeds on the cell *)
CanFloat(c) == c.k \in {"num", "nan", "bool"} \/ (c.k = "str" /\ c.s \in DOMAIN FloatText)

(* .astype('float32') on one cell that CanFloat *)
AsFloat(c) ==
    CASE c.k = "str" -> Whole(FloatText[c.s])
      [] c.k = "bool" -> Whole(c.n)
      [] OTHER -> c

(* np.ceil(x * 0.5): a quarter of the half units, rounded up to a whole *)
CeilHalf(c) == IF IsNull(c) THEN NaN ELSE Whole(-((-c.n) \div 4))

(* A mean that does not skip the missing values (np.mean) *)
PlainMean(a, b) ==
    IF IsNull(a) \/ IsNull(b) THEN NaN ELSE Num((a.n + b.n) \div 2)

(* np.nanmean over the two stacked values of one record; both values  *)
(* are whole numbers here, so their mean is a number of half units      *)
NanMean(a, b) ==
    CASE IsNull(a) /\ IsNull(b) -> NaN
      [] IsNull(a) -> b
      [] IsNull(b) -> a
      [] OTHER -> Num((a.n + b.n) \div 2)

(* BraakMrg of one record from its Braak06 and Braak03 cells *)
BraakMrgOf(b06, b03) ==
    NanMean(CeilHalf(AsFloat(ReplaceUnknown(b06))), AsFloat(ReplaceUnknown(b03)))

BothBraakPresent(t) == "Braak06" \in DOMAIN t /\ "Braak03" \in DOMAIN t

(* Whether the conversion of a source column raises *)
BraakRaises(t) ==
    /\ BothBraakPresent(t)
    /\ \E c \in {"Braak06", "Braak03"} :
           \E i \in RowIds(t) : ~CanFloat(ReplaceUnknown(t[c][i]))

(* The table as merge_braak_stages leaves it (in place) when nothing raises *)
merge_braak_stages(t) ==
    IF BothBraakPresent(t)
    THEN SetCol(t, "BraakMrg",
                [i \in RowIds(t) |->
                    BraakMrgOf(t["Braak06"][i], t["Braak03"][i])])
    ELSE t

----------------------------------------------------------------------------
(* clean_cndr_dataset *)

(* The value the body's last rebinding of its local name df holds *)
CleanedLocal(t) == merge_braak_stages(semiq_scores_to_numeric(t))

(* The function has no return statement *)
CleanReturn(t) == RetNone

(* The caller's table after the call: the body rebinds its local name *)
(* to the copy that replace returned, and writes only to that copy     *)
CleanCallerTable(t) == t

----------------------------------------------------------------------------
(* add_diagnostic_categories: the diagnosis flags of record i *)

NPDxCols == {"NPDx1", "NPDx2", "NPDx3", "NPDx4"}

ADLabel == "Alzheimer's disease"

LATELabel == "Limbic-predominant Age-related TDP-43 Encephalopathy (Also known as LATE)"

first_diag_nadt_labels ==
    {"Argyrophilic grain disease",
     "Corticobasal degeneration",
     "Globular glial tauopathy",
     "Progressive supranuclear palsy",
     "Tauopathy unclassifiable",
     "Other"}

any_diag_nadt_ftld_labels ==
    {"Amyotrophic lateral sclerosis",
     "Amyotrophic lateral sclerosis - Other",
     "Argyrophilic grain disease",
     "Chronic Traumatic Encephalopathy",
     "Corticobasal degeneration",
     "Frontotemporal dementia with parkinsonism linked to chromosome 17",
     "Frontotemporal lobar degeneration with TDP inclusions (Also known as FTLD-TDP)",
     "Globular glial tauopathy",
     "Multiple system atrophy",
     "Pick's disease",
     "Progressive supranuclear palsy",
     "Tauopathy unclassifiable",
     "Other"}

(* cell == label, and cell.isin(labels): a missing cell matches nothing *)
CellIn(c, labels) == c.k = "str" /\ c.s \in labels

(* The columns df[['NPDx1','NPDx2','NPDx3','NPDx4']] does not find *)
MissingNPDx(t) == NPDxCols \ DOMAIN t

is_any_diag_ad(t, i) == \E c \in NPDxCols : CellIn(t[c][i], {ADLabel})

is_first_diag_nadt(t, i) == CellIn(t["NPDx1"][i], first_diag_nadt_labels)

is_any_diag_nadt_ftld(t, i) == \E c \in NPDxCols : CellIn(t[c][i], any_diag_nadt_ftld_labels)

is_any_diag_late(t, i) == \E c \in NPDxCols : CellIn(t[c][i], {LATELabel})

(* Eligibility that looks at every slot for the competing diagnosis *)
RobinAnySlot(t, i) == is_any_diag_ad(t, i) /\ ~is_any_diag_nadt_ftld(t, i)

is_robin_eligible(t, i) == is_any_diag_ad(t, i) /\ ~is_first_diag_nadt(t, i)

is_ad(t, i) == is_any_diag_ad(t, i) /\ ~is_any_diag_nadt_ftld(t, i)

(* The continuum flag without its negation *)
AdContNotNegated(t, i) == is_any_diag_nadt_ftld(t, i)

is_ad_cont(t, i) == ~is_any_diag_nadt_ftld(t, i)

is_late_ad(t, i) == is_ad(t, i) /\ is_any_diag_late(t, i)

is_late_ad_cont(t, i) == is_ad_cont(t, i) /\ is_any_diag_late(t, i)

(* series.replace({True: 1, False: 0}) *)
IntFlag(b) == Whole(IF b THEN 1 ELSE 0)

----------------------------------------------------------------------------
(* add_diagnostic_categories: ADNC_severity *)

(* cell > h half units; a comparison with a missing value is False.    *)
(* The score columns drawn here hold numbers or missing values only.   *)
Gt(c, h) == c.k = "num" /\ c.n > h

(* df.loc[mask, column] = value, on one record *)
Loc(mask, value, current) == IF mask THEN value ELSE current

(* The rules with the weakest one applied last *)
ADNCRule1Last(a, b, c) ==
    LET s0 == Whole(0)
        s1 == Loc(IsNull(a), NaN, s0)
        s2 == Loc(IsNull(b), NaN, s1)
        s3 == Loc(IsNull(c), NaN, s2)
        s4 == Loc(Gt(b, 3) /\ Gt(a, 3), Whole(2), s3)
        s5 == Loc(Gt(b, 3) /\ Gt(a, 1) /\ Gt(c, 3), Whole(2), s4)
        s6 == Loc(Gt(b, 5) /\ Gt(a, 5) /\ Gt(c, 3), Whole(3), s5)
        s7 == Loc(Gt(a, 1), Whole(1), s6)
    IN  s7

(* ADNC_severity of one record from its ABeta, BraakMrg and CERAD cells: *)
(* the assignments of lines 124-131 in their order (0.5, 1.5 and 2.5 are *)
(* 1, 3 and 5 half units)                                                *)
ADNCSeverityOf(a, b, c) ==
    LET s0 == Whole(0)
        s1 == Loc(IsNull(a), NaN, s0)
        s2 == Loc(IsNull(b), NaN, s1)
        s3 == Loc(IsNull(c), NaN, s2)
        s4 == Loc(Gt(a, 1), Whole(1), s3)
        s5 == Loc(Gt(b, 3) /\ Gt(a, 3), Whole(2), s4)
        s6 == Loc(Gt(b, 3) /\ Gt(a, 1) /\ Gt(c, 3), Whole(2), s5)
        s7 == Loc(Gt(b, 5) /\ Gt(a, 5) /\ Gt(c, 3), Whole(3), s6)
    IN  s7

ADNCInputsPresent(t) == {"ABeta", "BraakMrg", "CERAD"} \subseteq DOMAIN t

(* A severity block that writes a column of missing values when an     *)
(* input column is absent                                               *)
WithADNCPlaceholder(t) ==
    SetCol(t, "ADNC_severity",
           [i \in RowIds(t) |->
               IF ADNCInputsPresent(t)
               THEN ADNCSeverityOf(t["ABeta"][i], t["BraakMrg"][i], t["CERAD"][i])
               ELSE NaN])

(* The table after lines 123-131: the column is written only when the  *)
(* three input columns are there                                        *)
WithADNC(t) ==
    IF ADNCInputsPresent(t)
    THEN SetCol(t, "ADNC_severity",
                [i \in RowIds(t) |->
                    ADNCSeverityOf(t["ABeta"][i], t["BraakMrg"][i], t["CERAD"][i])])
    ELSE t

----------------------------------------------------------------------------
(* add_diagnostic_categories: LATE_stage *)

LATEInputsPresent(t) == {"CSTDP43", "DGTDP43", "ECTDP43"} \subseteq DOMAIN t

(* (CSTDP43 + DGTDP43 + ECTDP43) / 3.0 of one record: missing when a   *)
(* summand is missing; the n of the result counts SIXTHS (the sum of  *)
(* the half units), which keeps the sign and the zero of the average    *)
mtl_tdp(x, y, z) ==
    IF IsNull(x) \/ IsNull(y) \/ IsNull(z) THEN NaN ELSE Num(x.n + y.n + z.n)

(* pandas' boolean_series & float_series: the float operand has its    *)
(* missing values filled with False and is cast to bool (non-zero is   *)
(* True) before the element-wise and                                    *)
AndFloat(b, x) == b /\ x.k = "num" /\ x.n # 0

(* boolean > 0: True counts as 1 *)
BoolGtZero(b) == (IF b THEN 1 ELSE 0) > 0

(* The mask of line 142, is_any_diag_late & mtl_tdp > 0: Python's &    *)
(* binds tighter than >, so it is (is_any_diag_late & mtl_tdp) > 0     *)
LateStage2Mask(late, avg) == BoolGtZero(AndFloat(late, avg))

(* LATE_stage of one record: lines 140-142 in their order *)
LATEStageOf(late, x, y, z) ==
    LET s0 == Whole(0)
        s1 == Loc(late, Whole(1), s0)
        s2 == Loc(LateStage2Mask(late, mtl_tdp(x, y, z)), Whole(2), s1)
    IN  s2

(* The table after lines 138-142 *)
WithLATE(t) ==
    IF LATEInputsPresent(t)
    THEN SetCol(t, "LATE_stage",
                [i \in RowIds(t) |->
                    LATEStageOf(is_any_diag_late(t, i),
                                t["CSTDP43"][i], t["DGTDP43"][i], t["ECTDP43"][i])])
    ELSE t

----------------------------------------------------------------------------
(* add_diagnostic_categories: the whole function *)

FlagCols == {"is_any_diag_ad", "is_any_diag_nadt_ftld", "is_any_diag_late",
             "is_robin_eligible", "is_clean_ad", "is_clean_ad_cont",
             "is_clean_late_ad", "is_clean_late_ad_cont"}

(* The cell lines 144-151 write to flag column f of record i *)
FlagCell(t, f, i) ==
    CASE f = "is_any_diag_ad" -> IntFlag(is_any_diag_ad(t, i))
      [] f = "is_any_diag_nadt_ftld" -> IntFlag(is_any_diag_nadt_ftld(t, i))
      [] f = "is_any_diag_late" -> IntFlag(is_any_diag_late(t, i))
      [] f = "is_robin_eligible" -> IntFlag(is_robin_eligible(t, i))
      [] f = "is_clean_ad" -> IntFlag(is_ad(t, i))
      [] f = "is_clean_ad_cont" -> IntFlag(is_ad_cont(t, i))
      [] f = "is_clean_late_ad" -> Bool(is_late_ad(t, i))
      [] OTHER -> Bool(is_late_ad_cont(t, i))

(* The flags are computed from the table as it was given (lines 83-120, *)
(* 134-135) and written last (lines 144-151)                             *)
WithFlags(t, given) ==
    [c \in (DOMAIN t) \cup FlagCols |->
        IF c \in FlagCols THEN [i \in RowIds(given) |-> FlagCell(given, c, i)] ELSE t[c]]

(* The table when all four diagnosis slots are there *)
add_diagnostic_categories(t) == WithFlags(WithLATE(WithADNC(t)), t)

(* A lookup of the diagnosis slots that comes after the severity block *)
KeyErrorAfterADNC(t) == WithADNC(t)

(* The table when a diagnosis slot is absent: line 83, the first       *)
(* statement of the body, raises before anything is written            *)
TableOnKeyError(t) == t

----------------------------------------------------------------------------
(* The calls *)

CallSemiq ==
    /\ call' = "semiq_scores_to_numeric"
    /\ ret' = RetTable(semiq_scores_to_numeric(df))
    /\ df' = df

CallMerge ==
    /\ call' = "merge_braak_stages"
    /\ IF BraakRaises(df)
       THEN df' = df /\ ret' = RetValueError
       ELSE df' = merge_braak_stages(df) /\ ret' = RetTable(merge_braak_stages(df))

CallClean ==
    /\ call' = "clean_cndr_dataset"
    /\ IF BraakRaises(semiq_scores_to_numeric(df))
       THEN df' = df /\ ret' = RetValueError
       ELSE df' = CleanCallerTable(df) /\ ret' = CleanReturn(df)

CallAddDiag ==
    /\ call' = "add_diagnostic_categories"
    /\ IF MissingNPDx(df) # {}
       THEN df' = TableOnKeyError(df) /\ ret' = RetKeyError(MissingNPDx(df))
       ELSE df' = add_diagnostic_categories(df)
            /\ ret' = RetTable(add_diagnostic_categories(df))

Next == CallSemiq \/ CallMerge \/ CallClean \/ CallAddDiag

----------------------------------------------------------------------------
(* The tables the calls are given.  Each specification draws the table *)
(* of one part of the pipeline; the calls are the same in all of them.  *)

(* The largest score drawn, in half units (6 is 3.0, the top grade) *)
MaxScore == 6

(* How many half units below zero the drawn regional scores go: the    *)
(* functions take whatever numbers the file holds                       *)
MaxBelowZero == 1

Scores == {NaN} \cup {Num(h) : h \in 0 .. MaxScore}

(* ABeta and CERAD are graded in whole units *)
Grades == {NaN} \cup {Whole(w) : w \in 0 .. (MaxScore \div 2)}

SignedScores == {NaN} \cup {Num(h) : h \in (0 - MaxBelowZero) .. MaxScore}

(* A column of one record, and the absent column *)
One(name, cell) == <<name, TRUE, <<cell>> >>
Absent(name) == <<name, FALSE, <<>> >>
OneOrAbsent(name, cells) == {One(name, c) : c \in cells} \cup {Absent(name)}

SemiqCells == {Str(tok) : tok \in DOMAIN repl_semiq}
                  \cup {Str("Borderline"), Str("rare"), NaN, Num(1)}

InitCalls == ret = RetNone /\ call = "load"

(* Region-measure columns, another column holding the same tokens, and *)
(* the two Braak columns                                                 *)
InitRecode ==
    /\ InitCalls
    /\ \E a \in OneOrAbsent("AmygTau", SemiqCells),
          b \in OneOrAbsent("CSTDP43", SemiqCells),
          c \in OneOrAbsent("NPDx1", {Str("Rare"), Str("0"), Str(ADLabel), NaN}),
          d \in OneOrAbsent("Braak06", {Str("4"), Str("Unknown")}),
          e \in OneOrAbsent("Braak03", {Str("1"), NaN}) :
            df = MkTable({a, b, c, d, e})

Braak06Cells == {NaN, Str("Unknown"), Str("Not Done")}
                    \cup {Str(t) : t \in {"0", "1", "2", "3", "4", "5", "6"}}
                    \cup {Whole(w) : w \in 0 .. MaxScore}

Braak03Cells == {NaN, Str("Unknown")}
                    \cup {Str(t) : t \in {"0", "1", "2", "3"}}
                    \cup {Whole(w) : w \in 0 .. (MaxScore \div 2)}

DiagnosedAD == {One("NPDx1", Str(ADLabel)), One("NPDx2", NaN),
                One("NPDx3", NaN), One("NPDx4", NaN)}

(* The two Braak columns, each there or not, with the other inputs of  *)
(* ADNC_severity and no BraakMrg                                        *)
InitBraak ==
    /\ InitCalls
    /\ \E a \in OneOrAbsent("Braak06", Braak06Cells),
          b \in OneOrAbsent("Braak03", Braak03Cells),
          c \in {One("ABeta", x) : x \in {NaN, Whole(1), Whole(3)}} :
            df = MkTable({a, b, c, One("CERAD", Whole(2))} \cup DiagnosedAD)

Vocabulary == any_diag_nadt_ftld_labels \cup first_diag_nadt_labels
                  \cup {ADLabel, LATELabel, "Lewy body disease"}

SlotCells == {NaN, Str(ADLabel), Str(LATELabel), Str("Corticobasal degeneration"),
              Str("Pick's disease"), Str("Lewy body disease")}

(* The four diagnosis slots, each there or not, beside the inputs of   *)
(* both severity scales                                                 *)
InitDiag ==
    /\ InitCalls
    /\ \E a \in OneOrAbsent("NPDx1", {NaN} \cup {Str(l) : l \in Vocabulary}),
          b \in OneOrAbsent("NPDx2", SlotCells),
          c \in OneOrAbsent("NPDx3", SlotCells),
          d \in OneOrAbsent("NPDx4", SlotCells) :
            df = MkTable({a, b, c, d,
                          One("ABeta", Whole(3)), One("BraakMrg", Whole(3)),
                          One("CERAD", Whole(2)), One("CSTDP43", Whole(1)),
                          One("DGTDP43", Whole(0)), One("ECTDP43", Whole(0))})

(* Two records of ABeta and CERAD grades and of BraakMrg, which is a   *)
(* mean of two whole stages; every side of the thresholds 0.5, 1.5 and *)
(* 2.5 is drawn                                                          *)
InitADNC ==
    /\ InitCalls
    /\ \E a1 \in Grades, a2 \in Grades, b1 \in Scores, b2 \in Scores,
          c1 \in Grades, c2 \in Grades :
            df = [x \in {"ABeta", "BraakMrg", "CERAD"} \cup NPDxCols |->
                    CASE x = "ABeta" -> <<a1, a2>>
                      [] x = "BraakMrg" -> <<b1, b2>>
                      [] x = "CERAD" -> <<c1, c2>>
                      [] x = "NPDx1" -> <<Str(ADLabel), Str(ADLabel)>>
                      [] OTHER -> <<NaN, NaN>>]

(* The three regional TDP-43 scores, each there or not, and two slots  *)
InitLate ==
    /\ InitCalls
    /\ \E a \in OneOrAbsent("CSTDP43", SignedScores),
          b \in OneOrAbsent("DGTDP43", SignedScores),
          c \in OneOrAbsent("ECTDP43", SignedScores),
          d \in {One("NPDx1", x) : x \in {NaN, Str(ADLabel), Str(LATELabel)}},
          e \in {One("NPDx2", x) : x \in {NaN, Str(LATELabel)}} :
            df = MkTable({a, b, c, d, e, One("NPDx3", NaN), One("NPDx4", NaN)})

Spec == InitRecode /\ [][Next]_vars

SpecBraak == InitBraak /\ [][Next]_vars

SpecDiag == InitDiag /\ [][Next]_vars

SpecADNC == InitADNC /\ [][Next]_vars

SpecLate == InitLate /\ [][Next]_vars

----------------------------------------------------------------------------
(* Properties *)

Cell(c, i) == df[c][i]

(* C1: after add_diagnostic_categories has run on a table with the     *)
(* ABeta, BraakMrg and CERAD columns, every record with at least one   *)
(* of the three missing has ADNC_severity missing.                     *)
C1_MissingInputGivesMissingSeverity ==
    "ADNC_severity" \in DOMAIN df =>
        \A i \in RowIds(df) :
            (IsNull(Cell("ABeta", i)) \/ IsNull(Cell("BraakMrg", i))
                \/ IsNull(Cell("CERAD", i)))
            => IsNull(Cell("ADNC_severity", i))

(* The average of the three regional scores of record i is > 0 *)
AveragePositive(i) ==
    /\ IsNum(Cell("CSTDP43", i)) /\ IsNum(Cell("DGTDP43", i)) /\ IsNum(Cell("ECTDP43", i))
    /\ Cell("CSTDP43", i).n + Cell("DGTDP43", i).n + Cell("ECTDP43", i).n > 0

(* Some diagnosis slot of record i holds the label *)
HasLabel(i, label) == \E c \in NPDxCols : Cell(c, i) = Str(label)

(* C2: LATE_stage is 2 if is_any_diag_late AND (average > 0), 1 if     *)
(* is_any_diag_late and the average is not > 0, and 0 otherwise.       *)
C2_LateStageGroupedAsAverageGtZero ==
    "LATE_stage" \in DOMAIN df =>
        \A i \in RowIds(df) :
            Cell("LATE_stage", i) =
                (IF HasLabel(i, LATELabel) /\ AveragePositive(i) THEN Whole(2)
                 ELSE IF HasLabel(i, LATELabel) THEN Whole(1)
                 ELSE Whole(0))

(* The Recoding Table, as the specification lists it *)
RecodingTable(c) ==
    CASE c = Str("Rare") -> Num(1)
      [] c \in {Str("0"), Str("Presumed 0")} -> Whole(0)
      [] c = Str("1+") -> Whole(1)
      [] c = Str("2+") -> Whole(2)
      [] c = Str("3+") -> Whole(3)
      [] c \in {Str("Not Avail"), Str("Not Done"), Str("Not Available")} -> NaN
      [] OTHER -> c

(* Table out holds the region-measure cells of table in, recoded *)
RecodedFrom(in, out) ==
    \A c \in (DOMAIN in) \cap cols_semiq :
        /\ c \in DOMAIN out
        /\ \A i \in RowIds(in) : out[c][i] = RecodingTable(in[c][i])

(* C3: after clean_cndr_dataset the table the caller has (the same     *)
(* table, in place, or the returned one) holds the recoded cells and,  *)
(* when Braak06 and Braak03 are both there, a BraakMrg column.         *)
C3_CleanedTableReachesCaller ==
    [][(call' = "clean_cndr_dataset" /\ ret'.kind # "ValueError") =>
          \E out \in {df'} \cup (IF ret'.kind = "table" THEN {ret'.table} ELSE {}) :
              /\ RecodedFrom(df, out)
              /\ BothBraakPresent(df) => "BraakMrg" \in DOMAIN out]_vars

(* A staging cell is missing once 'Unknown' counts as missing *)
StageMissing(c) == c = NaN \/ c = Str("Unknown")

(* The stage a staging cell holds, in whole units *)
StageOf(c) == IF c.k = "str" THEN FloatText[c.s] ELSE c.n \div 2

(* C4 as stated: with exactly one source missing the merged stage is   *)
(* the other source exactly.                                            *)
C4_OneMissingGivesOtherSource ==
    "BraakMrg" \in DOMAIN df =>
        \A i \in RowIds(df) :
            /\ (StageMissing(Cell("Braak03", i)) /\ ~StageMissing(Cell("Braak06", i)))
                => Cell("BraakMrg", i) = Whole(StageOf(Cell("Braak06", i)))
            /\ (StageMissing(Cell("Braak06", i)) /\ ~StageMissing(Cell("Braak03", i)))
                => Cell("BraakMrg", i) = Whole(StageOf(Cell("Braak03", i)))

(* C4, amended: BraakMrg is mean(ceil(Braak06 x 0.5), Braak03) when    *)
(* both sources are there, ceil(Braak06 x 0.5) when only Braak03 is    *)
(* missing, Braak03 when only Braak06 is missing, and missing when     *)
(* both are; 'Unknown' counts as missing.                               *)
C4_BraakMrgValue ==
    "BraakMrg" \in DOMAIN df =>
        \A i \in RowIds(df) :
            LET m06 == StageMissing(Cell("Braak06", i))
                m03 == StageMissing(Cell("Braak03", i))
                up == (StageOf(Cell("Braak06", i)) + 1) \div 2
            IN  Cell("BraakMrg", i) =
                    (CASE m06 /\ m03 -> NaN
                       [] m06 -> Whole(StageOf(Cell("Braak03", i)))
                       [] m03 -> Whole(up)
                       [] OTHER -> Num(up + StageOf(Cell("Braak03", i))))

C4_Witness ==
    /\ "BraakMrg" \in DOMAIN df
    /\ Cell("Braak06", 1) = Str("4")
    /\ Cell("Braak03", 1) = NaN
    /\ Cell("BraakMrg", 1) = Whole(2)

(* The labels that, in slot NPDx1 of a record, make is_first_diag_nadt true *)
FirstDiagLabels ==
    {l \in Vocabulary :
        is_first_diag_nadt([c \in NPDxCols |-> <<(IF c = "NPDx1" THEN Str(l) ELSE NaN)>>], 1)}

(* is_robin_eligible of every record is 1 when some slot holds the AD  *)
(* label and NPDx1 holds none of the labels, and 0 otherwise           *)
RobinEligibleFrom(labels) ==
    "is_robin_eligible" \in DOMAIN df =>
        \A i \in RowIds(df) :
            Cell("is_robin_eligible", i) =
                (IF HasLabel(i, ADLabel) /\ ~(\E l \in labels : Cell("NPDx1", i) = Str(l))
                 THEN Whole(1) ELSE Whole(0))

(* C5 as stated: is_first_diag_nadt tests NPDx1 against a fixed set of *)
(* eight labels, and is_robin_eligible is 1 iff some slot holds the AD *)
(* label and is_first_diag_nadt is false.                               *)
C5_EightLabels ==
    /\ Cardinality(FirstDiagLabels) = 8
    /\ RobinEligibleFrom(FirstDiagLabels)

(* C5, amended: the fixed set has six labels (Argyrophilic grain       *)
(* disease, Corticobasal degeneration, Globular glial tauopathy,       *)
(* Progressive supranuclear palsy, Tauopathy unclassifiable, Other);   *)
(* is_robin_eligible is 1 iff some slot holds the AD label and NPDx1   *)
(* holds none of the six, so NPDx2..NPDx4 count only through the AD    *)
(* label.                                                               *)
C5_RobinEligible ==
    /\ Cardinality(FirstDiagLabels) = 6
    /\ RobinEligibleFrom({"Argyrophilic grain disease", "Corticobasal degeneration",
                          "Globular glial tauopathy", "Progressive supranuclear palsy",
                          "Tauopathy unclassifiable", "Other"})

C5_Witness ==
    /\ "is_robin_eligible" \in DOMAIN df
    /\ Cell("NPDx1", 1) = Str(ADLabel)
    /\ Cell("NPDx2", 1) = Str("Corticobasal degeneration")
    /\ Cell("is_robin_eligible", 1) = Whole(1)

(* C6: semiq_scores_to_numeric returns the table with every cell of a  *)
(* region-measure column that holds a key of the Recoding Table        *)
(* replaced by its mapped value, and every other cell as it was.       *)
C6_RecodesRegionMeasureCellsOnly ==
    call = "semiq_scores_to_numeric" =>
        /\ ret.kind = "table"
        /\ DOMAIN ret.table = DOMAIN df
        /\ \A c \in DOMAIN df : \A i \in RowIds(df) :
               ret.table[c][i] =
                   (IF \E x \in Range(regions), y \in Range(measures) : c = x \o y
                    THEN RecodingTable(Cell(c, i))
                    ELSE Cell(c, i))

C6_Witness ==
    /\ call = "semiq_scores_to_numeric"
    /\ "CSTDP43" \notin DOMAIN df
    /\ "AmygTau" \in DOMAIN df /\ "NPDx1" \in DOMAIN df
    /\ Cell("AmygTau", 1) = Str("Rare") /\ ret.table["AmygTau"][1] = Num(1)
    /\ Cell("NPDx1", 1) = Str("Rare") /\ ret.table["NPDx1"][1] = Str("Rare")

(* C7: with a diagnosis slot absent add_diagnostic_categories raises   *)
(* an error that names the absent columns and leaves the table as it   *)
(* was: no flag, ADNC_severity or LATE_stage column is added.          *)
C7_FailsFastOnMissingSlot ==
    [][(call' = "add_diagnostic_categories" /\ ~(NPDxCols \subseteq DOMAIN df)) =>
          /\ ret'.kind = "KeyError"
          /\ ret'.cols = NPDxCols \ DOMAIN df
          /\ df' = df]_vars

C7_Witness ==
    /\ call = "add_diagnostic_categories"
    /\ ret.kind = "KeyError"
    /\ ret.cols = {"NPDx3"}
    /\ {"ABeta", "BraakMrg", "CERAD"} \subseteq DOMAIN df
    /\ "ADNC_severity" \notin DOMAIN df

(* The severity of the last matching rule, in whole units *)
LastMatchingRule(a, b, c) ==
    IF b > 5 /\ a > 5 /\ c > 3 THEN 3
    ELSE IF b > 3 /\ a > 1 /\ c > 3 THEN 2
    ELSE IF b > 3 /\ a > 3 THEN 2
    ELSE IF a > 1 THEN 1
    ELSE 0

InputsPresent(i) ==
    IsNum(Cell("ABeta", i)) /\ IsNum(Cell("BraakMrg", i)) /\ IsNum(Cell("CERAD", i))

(* C8: ADNC_severity is missing, 0, 1, 2 or 3; on records with no      *)
(* missing input it is the value of the last matching rule, and it     *)
(* does not decrease from a record to one whose ABeta, BraakMrg and    *)
(* CERAD are each at least as large.                                    *)
C8_SeverityRangeAndMonotone ==
    "ADNC_severity" \in DOMAIN df =>
        /\ \A i \in RowIds(df) :
               /\ Cell("ADNC_severity", i) \in {NaN} \cup {Whole(w) : w \in 0 .. 3}
               /\ InputsPresent(i) =>
                      Cell("ADNC_severity", i) =
                          Whole(LastMatchingRule(Cell("ABeta", i).n, Cell("BraakMrg", i).n,
                                                 Cell("CERAD", i).n))
        /\ \A i, j \in RowIds(df) :
               (/\ InputsPresent(i) /\ InputsPresent(j)
                /\ Cell("ABeta", i).n <= Cell("ABeta", j).n
                /\ Cell("BraakMrg", i).n <= Cell("BraakMrg", j).n
                /\ Cell("CERAD", i).n <= Cell("CERAD", j).n)
               => /\ IsNum(Cell("ADNC_severity", i)) /\ IsNum(Cell("ADNC_severity", j))
                  /\ Cell("ADNC_severity", i).n <= Cell("ADNC_severity", j).n

C8_Witness ==
    /\ "ADNC_severity" \in DOMAIN df
    /\ Cell("ABeta", 1) = Whole(1) /\ Cell("BraakMrg", 1) = Num(3) /\ Cell("CERAD", 1) = Whole(2)
    /\ Cell("ABeta", 2) = Whole(3) /\ Cell("BraakMrg", 2) = Num(6) /\ Cell("CERAD", 2) = Whole(2)
    /\ Cell("ADNC_severity", 1) = Whole(1)
    /\ Cell("ADNC_severity", 2) = Whole(3)

AllSlotsMissing(i) == \A c \in NPDxCols : IsNull(Cell(c, i))

(* C9 as stated: a record whose four diagnosis slots are all missing   *)
(* has every flag missing.                                              *)
C9_FlagsPropagateMissing ==
    "is_any_diag_ad" \in DOMAIN df =>
        \A i \in RowIds(df) :
            AllSlotsMissing(i) => \A f \in FlagCols : IsNull(Cell(f, i))

(* C9, amended: no flag is ever missing; a record whose four diagnosis *)
(* slots are all missing has is_any_diag_ad, is_any_diag_nadt_ftld,    *)
(* is_any_diag_late, is_robin_eligible and is_clean_ad at 0,           *)
(* is_clean_ad_cont at 1, and is_clean_late_ad and                     *)
(* is_clean_late_ad_cont at False.                                      *)
C9_FlagsNeverMissing ==
    "is_any_diag_ad" \in DOMAIN df =>
        \A i \in RowIds(df) :
            /\ \A f \in FlagCols : Cell(f, i) \in {Whole(0), Whole(1), Bool(FALSE), Bool(TRUE)}
            /\ AllSlotsMissing(i) =>
                   /\ \A f \in {"is_any_diag_ad", "is_any_diag_nadt_ftld", "is_any_diag_late",
                                "is_robin_eligible", "is_clean_ad"} : Cell(f, i) = Whole(0)
                   /\ Cell("is_clean_ad_cont", i) = Whole(1)
                   /\ Cell("is_clean_late_ad", i) = Bool(FALSE)
                   /\ Cell("is_clean_late_ad_cont", i) = Bool(FALSE)

C9_Witness ==
    /\ "is_any_diag_ad" \in DOMAIN df
    /\ AllSlotsMissing(1)
    /\ Cell("is_clean_ad_cont", 1) = Whole(1)

(* C10: a call of add_diagnostic_categories leaves an ADNC_severity    *)
(* column iff BraakMrg was there when it was called, and BraakMrg is   *)
(* there only once merge_braak_stages has added it; a call of          *)
(* merge_braak_stages never adds ADNC_severity, and changes nothing    *)
(* when Braak06 or Braak03 is absent.                                   *)
C10_SeverityNeedsEarlierMerge ==
    [][/\ call' = "add_diagnostic_categories" =>
              ("ADNC_severity" \in DOMAIN df' <=> "BraakMrg" \in DOMAIN df)
       /\ call' = "merge_braak_stages" =>
              /\ "ADNC_severity" \in DOMAIN df' <=> "ADNC_severity" \in DOMAIN df
              /\ ~({"Braak06", "Braak03"} \subseteq DOMAIN df) => df' = df
       /\ ("BraakMrg" \notin DOMAIN df /\ "BraakMrg" \in DOMAIN df') =>
              /\ call' = "merge_braak_stages"
              /\ {"Braak06", "Braak03"} \subseteq DOMAIN df]_vars

C10_Witness ==
    /\ call = "merge_braak_stages"
    /\ "BraakMrg" \in DOMAIN df
    /\ "is_any_diag_ad" \in DOMAIN df
    /\ "ADNC_severity" \notin DOMAIN df

====
